---- MODULE Spec2Model ----
(***************************************************************************)
(* A model of the nix-installer action core:                               *)
(*   - FetchAndUnpackNix (src/action/base/fetch_and_unpack_nix.rs):        *)
(*     plan-time validation, execute, revert;                              *)
(*   - the StatefulAction wrapper and the Install / Uninstall plan driver, *)
(*     as spec.md 4.2, 4.5 and 5 describe them;                            *)
(*   - HarmonicCli::execute and signal_channel (src/cli/mod.rs).           *)
(***************************************************************************)
EXTENDS Integers, Sequences, FiniteSets, TLC

VARIABLES
    inputs,     \* the arguments of FetchAndUnpackNix::plan and the state of the certificate file
    planned,    \* what FetchAndUnpackNix::plan returned (NotPlanned before the call)
    host,       \* the host: the destination directory and the accesses made so far
    actions,    \* the plan: a sequence of StatefulAction records (action_name, state)
    ghost,      \* per action, what its wrapped execute and revert were seen to do
    last,       \* the last StatefulAction call and its outcome
    bus,        \* the broadcast channel of signal_channel, its receivers and its listener
    driver      \* the process: the subcommand it was given and where its engine is

vars == <<inputs, planned, host, actions, ghost, last, bus, driver>>

(***************************************************************************)
(* Values                                                                  *)
(***************************************************************************)
None == "None"

\* URL schemes the model draws locators and proxies from: the three each
\* whitelist accepts and schemes outside both.
Schemes == {"https", "http", "file", "socks5", "ftp", "socks4"}

\* Option<UrlOrPath>: None, a bare path, or a URL with its scheme.
UrlOrPaths ==
    {[kind |-> None, scheme |-> ""], [kind |-> "Path", scheme |-> ""]}
        \cup {[kind |-> "Url", scheme |-> s] : s \in Schemes}

\* Option<Url> for the proxy.
Proxies == {[kind |-> None, scheme |-> ""]} \cup {[kind |-> "Url", scheme |-> s] : s \in Schemes}

\* Distribution::tarball_location_or: an embedded payload, or the locator.
Distributions == {"InMemory", "UrlOrPath"}

\* Option<PathBuf> for ssl_cert_file.
CertFiles == {None, "cert.pem"}

\* ActionTag("fetch_and_unpack_nix")
action_tag == "fetch_and_unpack_nix"

\* Self::error(kind): the ActionError pairing the tag with the kind.  A
\* FetchUrlError is boxed into ActionErrorKind::Custom.
ActionError(kind, custom) == [tag |-> action_tag, kind |-> kind, custom |-> custom]

NoError == [tag |-> "", kind |-> "", custom |-> ""]

\* impl From<FetchUrlError> for ActionErrorKind
FetchUrlError(val) == ActionError("Custom", val)

Incomplete == "Incomplete"
Completed == "Completed"

NoAction == [action_name |-> None, state |-> Incomplete]

\* What a directory may hold: the two entries of the archive and a file that
\* is not in the archive.
ArchiveEntries == {"nix/store", "nix/bin"}
Entries == ArchiveEntries \cup {"leftover.txt"}

\* self.dest on the host: absent, or a directory with some entries.
DestStates == {[exists |-> FALSE, entries |-> {}]}
                  \cup {[exists |-> TRUE, entries |-> e] : e \in SUBSET Entries}

\* The host with destination d and no access made yet: certReads, gets and
\* reads count the reads of the certificate file, the GET requests and the
\* reads of the tarball file; mutations counts the changes made to the
\* filesystem.
HostWith(d) == [dest |-> d, certReads |-> 0, gets |-> 0, reads |-> 0, mutations |-> 0]

Accesses(h) == h.certReads + h.gets + h.reads + h.mutations

\* No process ran yet.  runs counts the processes started; subcommand is what
\* the command line gave and engine what HarmonicCli::execute dispatched to;
\* pc is "exit" (no process running), "idle" (between actions) or "inflight"
\* (a StatefulAction call was begun and has not returned); idx is the action
\* handled next; calls lists the calls begun in this run, in order; started
\* is the set of actions Completed when the run started; mutated and reverted
\* are the actions whose wrapped execute changed the host and whose wrapped
\* revert was invoked in this run; before is the run before this one.
NoRun == [subcommand |-> None, failedAt |-> 0, fresh |-> FALSE, cancelled |-> FALSE,
          mutated |-> {}, exit |-> None]

NoDriver ==
    [runs |-> 0, subcommand |-> None, engine |-> None, pc |-> "exit", idx |-> 0,
     stopObserved |-> FALSE, observedAt |-> 0, observedInflight |-> FALSE,
     failedAt |-> 0, anyFailed |-> FALSE, fresh |-> FALSE, started |-> {},
     calls |-> <<>>, mutated |-> {}, reverted |-> {}, exit |-> None, before |-> NoRun]

(***************************************************************************)
(* signal_channel: the broadcast channel and its listener                  *)
(***************************************************************************)
\* tokio::sync::broadcast::channel(100)
ChannelCapacity == 100

\* The channel keeps capacity.next_power_of_two() values.
BufferLen ==
    LET pow2 == {1, 2, 4, 8, 16, 32, 64, 128, 256, 512, 1024}
    IN CHOOSE p \in pow2 : p >= ChannelCapacity /\ \A q \in pow2 : q >= ChannelCapacity => p <= q

\* The receivers: 1 is the `reciever` signal_channel returns, the others are
\* obtained later by sender.subscribe().
Receivers == {1, 2}
Signals == {"SIGINT", "SIGTERM"}

\* The state after signal_channel() returned: nothing sent (tail is the number
\* of values sent) and receiver 1 at position 0.  owed is the set of receivers
\* that were subscribed when the listener handled a signal and have read no
\* value since; reads counts the try_recv calls of each receiver.
signal_channel ==
    [tail |-> 0, next |-> [r \in Receivers |-> 0], subs |-> {1}, dropped |-> {}, owed |-> {},
     reads |-> [r \in Receivers |-> 0]]

\* Sender::send(()): the value is stored unless no receiver is left; the
\* error of that case is discarded by .ok().
send(b) == IF b.subs = {} THEN b ELSE [b EXCEPT !.tail = @ + 1]

\* Receiver::try_recv: Empty when the receiver has read everything, Lagged
\* when values it has not read were overwritten (the receiver then moves to
\* the oldest value kept), or else the next value.
try_recv(b, r) ==
    IF b.next[r] = b.tail THEN [res |-> "Empty", bus |-> [b EXCEPT !.reads[r] = @ + 1]]
    ELSE IF b.tail - b.next[r] > BufferLen
    THEN [res |-> "Lagged",
          bus |-> [b EXCEPT !.next[r] = b.tail - BufferLen, !.reads[r] = @ + 1]]
    ELSE [res |-> "Ok",
          bus |-> [b EXCEPT !.next[r] = @ + 1, !.owed = @ \ {r}, !.reads[r] = @ + 1]]

\* The listener's select! with the SIGTERM branch only logging.
republish_sigint_only(b, sig) ==
    IF sig = "SIGINT" THEN send(b) ELSE b

\* The listener's select!: either branch logs and sends one () on the channel.
republish(b, sig) ==
    IF sig = "SIGINT" THEN send(b) ELSE send(b)

\* The listener's loop gets sig from its stream and takes that branch; the
\* receivers subscribed now are owed a notification.
Listen(b, sig) == republish([b EXCEPT !.owed = @ \cup b.subs], sig)

(***************************************************************************)
(* FetchAndUnpackNix::plan                                                 *)
(***************************************************************************)
\* The StatefulAction that `Self { .. }.into()` builds: the flag starts Incomplete.
IntoStatefulAction == [action_name |-> action_tag, state |-> Incomplete]

\* FetchAndUnpackNix::plan with the locator's scheme check left out.
plan_no_url_check(distribution, url_or_path, proxy, ssl_cert_file, certParses) ==
    IF proxy.kind # None /\ proxy.scheme \notin {"https", "http", "socks5"}
    THEN [ok |-> FALSE, err |-> FetchUrlError("UnknownProxyScheme"),
          action |-> NoAction, certReads |-> 0]
    ELSE IF ssl_cert_file # None /\ ~certParses
    THEN [ok |-> FALSE, err |-> ActionError("Certificate", ""),
          action |-> NoAction, certReads |-> 1]
    ELSE [ok |-> TRUE, err |-> NoError, action |-> IntoStatefulAction,
          certReads |-> IF ssl_cert_file # None THEN 1 ELSE 0]

\* FetchAndUnpackNix::plan with the proxy whitelist of the reqwest documentation
\* (socks5h in place of socks5).
plan_proxy_socks5h(distribution, url_or_path, proxy, ssl_cert_file, certParses) ==
    IF url_or_path.kind = "Url" /\ url_or_path.scheme \notin {"https", "http", "file"}
    THEN [ok |-> FALSE, err |-> ActionError("UnknownUrlScheme", ""),
          action |-> NoAction, certReads |-> 0]
    ELSE IF proxy.kind # None /\ proxy.scheme \notin {"https", "http", "socks5h"}
    THEN [ok |-> FALSE, err |-> FetchUrlError("UnknownProxyScheme"),
          action |-> NoAction, certReads |-> 0]
    ELSE IF ssl_cert_file # None /\ ~certParses
    THEN [ok |-> FALSE, err |-> ActionError("Certificate", ""),
          action |-> NoAction, certReads |-> 1]
    ELSE [ok |-> TRUE, err |-> NoError, action |-> IntoStatefulAction,
          certReads |-> IF ssl_cert_file # None THEN 1 ELSE 0]

\* FetchAndUnpackNix::plan with the proxy's scheme checked before the locator's.
plan_proxy_first(distribution, url_or_path, proxy, ssl_cert_file, certParses) ==
    IF proxy.kind # None /\ proxy.scheme \notin {"https", "http", "socks5"}
    THEN [ok |-> FALSE, err |-> FetchUrlError("UnknownProxyScheme"),
          action |-> NoAction, certReads |-> 0]
    ELSE IF url_or_path.kind = "Url" /\ url_or_path.scheme \notin {"https", "http", "file"}
    THEN [ok |-> FALSE, err |-> ActionError("UnknownUrlScheme", ""),
          action |-> NoAction, certReads |-> 0]
    ELSE IF ssl_cert_file # None /\ ~certParses
    THEN [ok |-> FALSE, err |-> ActionError("Certificate", ""),
          action |-> NoAction, certReads |-> 1]
    ELSE [ok |-> TRUE, err |-> NoError, action |-> IntoStatefulAction,
          certReads |-> IF ssl_cert_file # None THEN 1 ELSE 0]

\* plan(distribution, url_or_path, dest, proxy, ssl_cert_file): the checks in
\* the order of the code; certParses is whether parse_ssl_cert succeeds on the
\* file now.  certReads counts the reads of the certificate file.
FetchAndUnpackNix_plan(distribution, url_or_path, proxy, ssl_cert_file, certParses) ==
    IF url_or_path.kind = "Url" /\ url_or_path.scheme \notin {"https", "http", "file"}
    THEN [ok |-> FALSE, err |-> ActionError("UnknownUrlScheme", ""),
          action |-> NoAction, certReads |-> 0]
    ELSE IF proxy.kind # None /\ proxy.scheme \notin {"https", "http", "socks5"}
    THEN [ok |-> FALSE, err |-> FetchUrlError("UnknownProxyScheme"),
          action |-> NoAction, certReads |-> 0]
    ELSE IF ssl_cert_file # None /\ ~certParses
    THEN [ok |-> FALSE, err |-> ActionError("Certificate", ""),
          action |-> NoAction, certReads |-> 1]
    ELSE [ok |-> TRUE, err |-> NoError, action |-> IntoStatefulAction,
          certReads |-> IF ssl_cert_file # None THEN 1 ELSE 0]

(***************************************************************************)
(* FetchAndUnpackNix::execute and ::revert                                 *)
(***************************************************************************)
\* Distribution::tarball_location_or(&self.url_or_path), as spec.md 4.3 a
\* describes it: the embedded payload when the distribution supplies one, or
\* else the locator.
tarball_location_or(distribution, url_or_path) ==
    IF distribution = "InMemory" THEN [kind |-> "InMemory", scheme |-> ""] ELSE url_or_path

\* The one step of execute that fails in a call, if the call gets to it:
\* Proxy::all, parse_ssl_cert, Client::build, RequestBuilder::build,
\* Client::execute, Response::bytes, fs::read, remove_dir_all (before or after
\* it removed the contents), and Archive::unpack (at create_dir_all, at the
\* first entry, or after it extracted an entry).
Faults == {"none", "proxy", "cert", "client", "request", "transport", "body", "read",
           "remove", "remove_partial", "mkdir", "unarchive", "unarchive_partial"}

Ok(h) == [ok |-> TRUE, err |-> NoError, host |-> h]
Err(e, h) == [ok |-> FALSE, err |-> e, host |-> h]

\* The `let bytes = match ...` of execute with the locator, when one is
\* configured, taken before the embedded payload.
resolve_bytes_locator_first(self, h, fault) ==
    LET loc == IF self.url_or_path.kind # None THEN self.url_or_path
               ELSE tarball_location_or(self.distribution, self.url_or_path)
        certRead == [h EXCEPT !.certReads = @ + (IF self.ssl_cert_file # None THEN 1 ELSE 0)]
        sent == [certRead EXCEPT !.gets = @ + 1]
        read == [h EXCEPT !.reads = @ + 1]
    IN IF loc.kind = "InMemory" THEN Ok(h)
       ELSE IF loc.kind = "Url" THEN
            IF loc.scheme \in {"https", "http"} THEN
                 IF self.proxy.kind # None /\ fault = "proxy" THEN Err(ActionError("Reqwest", ""), h)
                 ELSE IF self.ssl_cert_file # None /\ fault = "cert"
                      THEN Err(ActionError("Certificate", ""), certRead)
                 ELSE IF fault = "client" THEN Err(ActionError("Reqwest", ""), certRead)
                 ELSE IF fault = "request" THEN Err(ActionError("Reqwest", ""), certRead)
                 ELSE IF fault = "transport" THEN Err(ActionError("Reqwest", ""), sent)
                 ELSE IF fault = "body" THEN Err(ActionError("Reqwest", ""), sent)
                 ELSE Ok(sent)
            ELSE IF loc.scheme = "file" THEN
                 IF fault = "read" THEN Err(ActionError("Read", "url.path"), read) ELSE Ok(read)
            ELSE Err(ActionError("UnknownUrlScheme", ""), h)
       ELSE IF fault = "read" THEN Err(ActionError("Read", "path"), read) ELSE Ok(read)

\* The `let bytes = match ...` of execute: the bytes from the embedded payload,
\* from a GET, or from a file.  The last branch is the bare path:
\* tarball_location_or yields no other kind for the inputs the model draws.
ResolveBytes(self, h, fault) ==
    LET loc == tarball_location_or(self.distribution, self.url_or_path)
        certRead == [h EXCEPT !.certReads = @ + (IF self.ssl_cert_file # None THEN 1 ELSE 0)]
        sent == [certRead EXCEPT !.gets = @ + 1]
        read == [h EXCEPT !.reads = @ + 1]
    IN IF loc.kind = "InMemory" THEN Ok(h)
       ELSE IF loc.kind = "Url" THEN
            IF loc.scheme \in {"https", "http"} THEN
                 IF self.proxy.kind # None /\ fault = "proxy" THEN Err(ActionError("Reqwest", ""), h)
                 ELSE IF self.ssl_cert_file # None /\ fault = "cert"
                      THEN Err(ActionError("Certificate", ""), certRead)
                 ELSE IF fault = "client" THEN Err(ActionError("Reqwest", ""), certRead)
                 ELSE IF fault = "request" THEN Err(ActionError("Reqwest", ""), certRead)
                 ELSE IF fault = "transport" THEN Err(ActionError("Reqwest", ""), sent)
                 ELSE IF fault = "body" THEN Err(ActionError("Reqwest", ""), sent)
                 ELSE Ok(sent)
            ELSE IF loc.scheme = "file" THEN
                 IF fault = "read" THEN Err(ActionError("Read", "url.path"), read) ELSE Ok(read)
            ELSE Err(ActionError("UnknownUrlScheme", ""), h)
       ELSE IF fault = "read" THEN Err(ActionError("Read", "path"), read) ELSE Ok(read)

\* execute with the removal of an existing destination left out.
remove_dest_skipped(h, fault) == Ok(h)

\* `if self.dest.exists() { remove_dir_all(&self.dest, OnMissing::Ignore)? }`.
\* A removal that fails has removed nothing, or the contents but not the
\* directory.
RemoveDest(h, fault) ==
    IF h.dest.exists
    THEN IF fault = "remove" THEN Err(ActionError("Remove", "dest"), h)
         ELSE IF fault = "remove_partial"
              THEN Err(ActionError("Remove", "dest"),
                       [h EXCEPT !.dest = [exists |-> TRUE, entries |-> {}],
                                 !.mutations = @ + (IF h.dest.entries # {} THEN 1 ELSE 0)])
         ELSE Ok([h EXCEPT !.dest = [exists |-> FALSE, entries |-> {}], !.mutations = @ + 1])
    ELSE Ok(h)

\* archive.unpack(&self.dest) with its failure mapped to the kind of the fetch.
unpack_error_as_reqwest(h, fault) ==
    LET made == [h EXCEPT !.dest = [exists |-> TRUE, entries |-> h.dest.entries],
                          !.mutations = @ + (IF h.dest.exists THEN 0 ELSE 1)]
    IN IF ~h.dest.exists /\ fault = "mkdir" THEN Err(ActionError("Reqwest", ""), h)
       ELSE IF fault = "unarchive" THEN Err(ActionError("Reqwest", ""), made)
       ELSE IF fault = "unarchive_partial"
            THEN Err(ActionError("Reqwest", ""),
                     [made EXCEPT !.dest.entries = @ \cup {"nix/store"}, !.mutations = @ + 1])
       ELSE Ok([made EXCEPT !.dest.entries = @ \cup ArchiveEntries, !.mutations = @ + 1])

\* archive.unpack(&self.dest): create the directory if it is missing, then
\* extract entry by entry, into whatever the directory holds.
Unpack(h, fault) ==
    LET made == [h EXCEPT !.dest = [exists |-> TRUE, entries |-> h.dest.entries],
                          !.mutations = @ + (IF h.dest.exists THEN 0 ELSE 1)]
    IN IF ~h.dest.exists /\ fault = "mkdir" THEN Err(FetchUrlError("Unarchive"), h)
       ELSE IF fault = "unarchive" THEN Err(FetchUrlError("Unarchive"), made)
       ELSE IF fault = "unarchive_partial"
            THEN Err(FetchUrlError("Unarchive"),
                     [made EXCEPT !.dest.entries = @ \cup {"nix/store"}, !.mutations = @ + 1])
       ELSE Ok([made EXCEPT !.dest.entries = @ \cup ArchiveEntries, !.mutations = @ + 1])

\* execute removing the destination before it has the bytes.
execute_removes_first(self, h, fault) ==
    LET removed == RemoveDest(h, fault)
    IN IF ~removed.ok THEN removed
       ELSE LET bytes == ResolveBytes(self, removed.host, fault)
            IN IF ~bytes.ok THEN bytes ELSE Unpack(bytes.host, fault)

\* async fn execute(&mut self): the bytes, the removal, the extraction; the
\* first failure is returned.
FetchAndUnpackNix_execute(self, h, fault) ==
    LET bytes == ResolveBytes(self, h, fault)
    IN IF ~bytes.ok THEN bytes
       ELSE LET removed == RemoveDest(bytes.host, fault)
            IN IF ~removed.ok THEN removed ELSE Unpack(removed.host, fault)

\* revert removing the destination that execute filled.
revert_removes_dest(self, h, fault) == RemoveDest(h, "none")

\* async fn revert(&mut self) { Ok(()) }
FetchAndUnpackNix_revert(self, h, fault) == Ok(h)

\* No StatefulAction call was made yet.
NoCall == [n |-> 0, op |-> None, idx |-> 0, flagBefore |-> Incomplete, invoked |-> FALSE,
           innerOk |-> FALSE, innerErr |-> NoError, ok |-> FALSE, err |-> NoError,
           touched |-> FALSE, prev |-> [op |-> None, idx |-> 0, ok |-> FALSE]]

NotPlanned == [called |-> FALSE, ok |-> FALSE, err |-> NoError, action |-> NoAction]

\* Every input plan can be given, with the certificate file parseable or not.
InitPlan ==
    /\ inputs \in [distribution : Distributions, url_or_path : UrlOrPaths,
                   proxy : Proxies, ssl_cert_file : CertFiles, certParses : BOOLEAN]
    /\ planned = NotPlanned
    /\ host \in {HostWith(d) : d \in DestStates}
    /\ actions = <<>>
    /\ ghost = <<>>
    /\ last = NoCall
    /\ bus = signal_channel
    /\ driver = NoDriver

\* One call of FetchAndUnpackNix::plan.
DoPlan ==
    /\ ~planned.called
    /\ LET r == FetchAndUnpackNix_plan(inputs.distribution, inputs.url_or_path,
                                       inputs.proxy, inputs.ssl_cert_file, inputs.certParses)
       IN /\ planned' = [called |-> TRUE, ok |-> r.ok, err |-> r.err, action |-> r.action]
          /\ host' = [host EXCEPT !.certReads = @ + r.certReads]
    /\ UNCHANGED <<inputs, actions, ghost, last, bus, driver>>

NextPlan == DoPlan

SpecPlan == InitPlan /\ [][NextPlan]_vars

(***************************************************************************)
(* The Action contract and the StatefulAction wrapper (spec.md 4.1, 4.2)   *)
(***************************************************************************)
\* The tag of the plan's other actions, known only by the Action contract.
other_tag == "other_action"

OtherError == [tag |-> other_tag, kind |-> "Custom", custom |-> "Failed"]

\* What a call of a wrapped execute or revert may meet.  An action of the
\* contract may fail before it changed anything or partway; its revert may fail.
ExecFaults(name) == IF name = action_tag THEN Faults ELSE {"none", "fail", "fail_partway"}
RevertFaults(name) == IF name = action_tag THEN Faults ELSE {"none", "fail"}

\* The wrapped action's execute: its result, the host after it, and whether it
\* changed the host.
InnerExecute(name, self, h, fault) ==
    IF name = action_tag
    THEN LET r == FetchAndUnpackNix_execute(self, h, fault)
         IN [ok |-> r.ok, err |-> r.err, host |-> r.host,
             mutated |-> r.host.mutations > h.mutations]
    ELSE [ok |-> fault = "none", err |-> IF fault = "none" THEN NoError ELSE OtherError,
          host |-> h, mutated |-> fault # "fail"]

\* The wrapped action's revert: its result, the host after it, and whether it
\* undid the action's change.
InnerRevert(name, self, h, fault) ==
    IF name = action_tag
    THEN LET r == FetchAndUnpackNix_revert(self, h, fault)
         IN [ok |-> r.ok, err |-> r.err, host |-> r.host, undone |-> FALSE]
    ELSE [ok |-> fault = "none", err |-> IF fault = "none" THEN NoError ELSE OtherError,
          host |-> h, undone |-> fault = "none"]

\* StatefulAction::execute with the Completed check left out.
execute_always_invokes(sa, inner) ==
    IF inner.ok
    THEN [sa |-> [sa EXCEPT !.state = Completed], invoked |-> TRUE, ok |-> TRUE, err |-> NoError]
    ELSE [sa |-> sa, invoked |-> TRUE, ok |-> FALSE, err |-> inner.err]

\* StatefulAction::execute setting the flag before the wrapped execute returned.
execute_sets_flag_first(sa, inner) ==
    IF sa.state = Completed
    THEN [sa |-> sa, invoked |-> FALSE, ok |-> TRUE, err |-> NoError]
    ELSE [sa |-> [sa EXCEPT !.state = Completed], invoked |-> TRUE,
          ok |-> inner.ok, err |-> inner.err]

\* StatefulAction::execute (spec.md 4.2): Completed returns success at once;
\* otherwise the wrapped execute runs (inner is its result), the flag becomes
\* Completed on success and stays Incomplete on failure, whose error is returned.
StatefulAction_execute(sa, inner) ==
    IF sa.state = Completed
    THEN [sa |-> sa, invoked |-> FALSE, ok |-> TRUE, err |-> NoError]
    ELSE IF inner.ok
    THEN [sa |-> [sa EXCEPT !.state = Completed], invoked |-> TRUE, ok |-> TRUE, err |-> NoError]
    ELSE [sa |-> sa, invoked |-> TRUE, ok |-> FALSE, err |-> inner.err]

\* StatefulAction::revert clearing the flag whatever the wrapped revert returned.
revert_always_clears(sa, inner) ==
    IF sa.state = Incomplete
    THEN [sa |-> sa, invoked |-> FALSE, ok |-> TRUE, err |-> NoError]
    ELSE [sa |-> [sa EXCEPT !.state = Incomplete], invoked |-> TRUE,
          ok |-> inner.ok, err |-> inner.err]

\* StatefulAction::revert (spec.md 4.2): Incomplete returns success at once;
\* otherwise the wrapped revert runs (inner is its result) and the flag is
\* cleared to Incomplete only on success.
StatefulAction_revert(sa, inner) ==
    IF sa.state = Incomplete
    THEN [sa |-> sa, invoked |-> FALSE, ok |-> TRUE, err |-> NoError]
    ELSE IF inner.ok
    THEN [sa |-> [sa EXCEPT !.state = Incomplete], invoked |-> TRUE, ok |-> TRUE, err |-> NoError]
    ELSE [sa |-> sa, invoked |-> TRUE, ok |-> FALSE, err |-> inner.err]

\* What was seen of one action's wrapped calls: the calls made, whether the
\* last wrapped execute succeeded with no wrapped revert succeeding since
\* (done), and whether a change it made to the host is still there (mutated).
NoGhost == [execCalls |-> 0, revertCalls |-> 0, innerExec |-> 0, innerExecFail |-> 0,
            innerRevert |-> 0, done |-> FALSE, mutated |-> FALSE]

GhostExecute(g, w, inner) ==
    IF w.invoked
    THEN [g EXCEPT !.execCalls = @ + 1, !.innerExec = @ + 1,
                   !.innerExecFail = @ + (IF inner.ok THEN 0 ELSE 1),
                   !.done = inner.ok, !.mutated = @ \/ inner.mutated]
    ELSE [g EXCEPT !.execCalls = @ + 1]

GhostRevert(g, w, inner) ==
    IF w.invoked
    THEN [g EXCEPT !.revertCalls = @ + 1, !.innerRevert = @ + 1,
                   !.done = @ /\ ~inner.ok, !.mutated = @ /\ ~inner.undone]
    ELSE [g EXCEPT !.revertCalls = @ + 1]

\* The record of a call: the flag before it, whether the wrapped operation
\* was invoked and what it returned, what the wrapper returned, whether the
\* call changed the host (changed), and the call before it.
CallRecord(op, i, sa, w, inner, changed) ==
    [n |-> last.n + 1, op |-> op, idx |-> i, flagBefore |-> sa.state, invoked |-> w.invoked,
     innerOk |-> w.invoked /\ inner.ok,
     innerErr |-> IF w.invoked THEN inner.err ELSE NoError,
     ok |-> w.ok, err |-> w.err,
     touched |-> changed,
     prev |-> [op |-> last.op, idx |-> last.idx, ok |-> last.ok]]

\* One call of StatefulAction::execute on action i, the wrapped execute
\* meeting fault.
WrapperExecute(i, fault) ==
    LET sa == actions[i]
        inner == InnerExecute(sa.action_name, inputs, host, fault)
        w == StatefulAction_execute(sa, inner)
    IN /\ actions' = [actions EXCEPT ![i] = w.sa]
       /\ host' = IF w.invoked THEN inner.host ELSE host
       /\ ghost' = [ghost EXCEPT ![i] = GhostExecute(@, w, inner)]
       /\ last' = CallRecord("execute", i, sa, w, inner,
                              host' # host \/ ghost'[i].mutated # ghost[i].mutated)

\* One call of StatefulAction::revert on action i.
WrapperRevert(i, fault) ==
    LET sa == actions[i]
        inner == InnerRevert(sa.action_name, inputs, host, fault)
        w == StatefulAction_revert(sa, inner)
    IN /\ actions' = [actions EXCEPT ![i] = w.sa]
       /\ host' = IF w.invoked THEN inner.host ELSE host
       /\ ghost' = [ghost EXCEPT ![i] = GhostRevert(@, w, inner)]
       /\ last' = CallRecord("revert", i, sa, w, inner,
                              host' # host \/ ghost'[i].mutated # ghost[i].mutated)

(***************************************************************************)
(* Any sequence of StatefulAction calls on a planned sequence of actions   *)
(***************************************************************************)
\* The number of actions of a plan, and of calls made on it.
NumActions == 2
MaxCalls == 3

\* Inputs that plan accepts and execute can resolve: an embedded payload, or
\* a locator with a whitelisted scheme; a proxy and a certificate file that
\* parses at plan time, or neither.
ValidInputs ==
    {i \in [distribution : Distributions, url_or_path : UrlOrPaths, proxy : Proxies,
            ssl_cert_file : CertFiles, certParses : {TRUE}] :
        /\ i.distribution = "InMemory" \/ i.url_or_path.kind # None
        /\ i.url_or_path.kind = "Url" => i.url_or_path.scheme \in {"https", "http", "file"}
        /\ \/ i.proxy.kind = None /\ i.ssl_cert_file = None
           \/ i.proxy.kind # None /\ i.proxy.scheme = "socks5" /\ i.ssl_cert_file # None}

\* A plan of n actions with the fetch-and-unpack action, as plan built it, at
\* position k and actions of the contract elsewhere.
PlanOf(fetch, k, n) ==
    [j \in 1..n |-> IF j = k THEN fetch ELSE [action_name |-> other_tag, state |-> Incomplete]]

Planned(i) ==
    FetchAndUnpackNix_plan(i.distribution, i.url_or_path, i.proxy, i.ssl_cert_file, i.certParses)

\* One input for each way execute obtains the bytes: the embedded payload, a
\* GET through a proxy with a certificate file, a file URL, a bare path.
WrapperInputs ==
    {i \in ValidInputs :
        /\ i.distribution = "InMemory" <=> i.url_or_path.kind = None
        /\ i.url_or_path.scheme # "http"
        /\ i.proxy.kind # None <=> i.url_or_path.scheme = "https"}

\* The destination before the first call: absent, or left by an earlier run.
WrapperDests == {[exists |-> FALSE, entries |-> {}], [exists |-> TRUE, entries |-> {"leftover.txt"}]}

InitWrapper ==
    /\ inputs \in WrapperInputs
    /\ planned = [called |-> TRUE, ok |-> Planned(inputs).ok, err |-> Planned(inputs).err,
                  action |-> Planned(inputs).action]
    /\ host \in {HostWith(d) : d \in WrapperDests}
    /\ \E k \in 1..NumActions : actions = PlanOf(planned.action, k, NumActions)
    /\ ghost = [j \in 1..NumActions |-> NoGhost]
    /\ last = NoCall
    /\ bus = signal_channel
    /\ driver = NoDriver

CallExecute ==
    \E i \in 1..NumActions : \E fault \in ExecFaults(actions[i].action_name) :
        /\ last.n < MaxCalls
        /\ WrapperExecute(i, fault)
        /\ UNCHANGED <<inputs, planned, bus, driver>>

CallRevert ==
    \E i \in 1..NumActions : \E fault \in RevertFaults(actions[i].action_name) :
        /\ last.n < MaxCalls
        /\ WrapperRevert(i, fault)
        /\ UNCHANGED <<inputs, planned, bus, driver>>

NextWrapper == CallExecute \/ CallRevert

SpecWrapper == InitWrapper /\ [][NextWrapper]_vars

(***************************************************************************)
(* HarmonicCli::execute and the plan driver (spec.md 4.5, 5)               *)
(***************************************************************************)
\* The match of HarmonicCli::execute with the Install arm calling the
\* uninstall subcommand's execute.
cli_install_reverts(subcommand) ==
    CASE subcommand = "Plan" -> "Plan"
      [] subcommand = "Install" -> "Uninstall"
      [] subcommand = "Uninstall" -> "Uninstall"

\* The match of HarmonicCli::execute with the Uninstall arm calling the
\* install subcommand's execute.
cli_uninstall_installs(subcommand) ==
    CASE subcommand = "Plan" -> "Plan"
      [] subcommand = "Install" -> "Install"
      [] subcommand = "Uninstall" -> "Install"

\* The match of HarmonicCli::execute with the Install arm calling the plan
\* subcommand's execute.
cli_install_plans(subcommand) ==
    CASE subcommand = "Plan" -> "Plan"
      [] subcommand = "Install" -> "Plan"
      [] subcommand = "Uninstall" -> "Uninstall"

\* HarmonicCli::execute: `match subcommand`, each arm calling the execute of
\* its own subcommand (plan, install, revert).
HarmonicCli_execute(subcommand) ==
    CASE subcommand = "Plan" -> "Plan"
      [] subcommand = "Install" -> "Install"
      [] subcommand = "Uninstall" -> "Uninstall"

\* The driver starting the next action although it observed a stop.
may_start_ignoring_stop(d, b) == TRUE

\* The driver consults the bus between actions: it starts the next action
\* only if it has observed no stop notification and its receiver has none.
DriverMayStart(d, b) == ~d.stopObserved /\ try_recv(b, 1).res = "Empty"

\* The number of actions of the driver's plan, of processes run one after the
\* other, and of signals one process gets.
PlanLen == 3
MaxRuns == 2
MaxSignals == 2

Subcommands == {"Plan", "Install", "Uninstall"}

CompletedSet == {i \in DOMAIN actions : actions[i].state = Completed}

\* The inputs of the driver's fetch-and-unpack action: the embedded payload.
\* The destination is one an earlier run left behind.
DriverInputs == {i \in WrapperInputs : i.distribution = "InMemory"}
DriverDests == {[exists |-> TRUE, entries |-> {"leftover.txt"}]}

InitDriver ==
    /\ inputs \in DriverInputs
    /\ planned = [called |-> TRUE, ok |-> Planned(inputs).ok, err |-> Planned(inputs).err,
                  action |-> Planned(inputs).action]
    /\ host \in {HostWith(d) : d \in DriverDests}
    /\ \E k \in 1..PlanLen : actions = PlanOf(planned.action, k, PlanLen)
    /\ ghost = [j \in 1..PlanLen |-> NoGhost]
    /\ last = NoCall
    /\ bus = signal_channel
    /\ driver = NoDriver

\* A process starts with a subcommand: signal_channel() creates its bus and
\* HarmonicCli::execute dispatches.  Plan and the flags are those persisted.
Start ==
    \E sub \in Subcommands :
        /\ driver.pc = "exit" /\ driver.runs < MaxRuns
        /\ bus' = signal_channel
        /\ driver' = [NoDriver EXCEPT
              !.runs = driver.runs + 1, !.subcommand = sub,
              !.engine = HarmonicCli_execute(sub), !.pc = "idle",
              !.idx = IF HarmonicCli_execute(sub) = "Uninstall" THEN PlanLen ELSE 1,
              !.fresh = (CompletedSet = {}), !.started = CompletedSet,
              !.before = [subcommand |-> driver.subcommand, failedAt |-> driver.failedAt,
                          fresh |-> driver.fresh, cancelled |-> driver.stopObserved,
                          mutated |-> driver.mutated, exit |-> driver.exit]]
        /\ UNCHANGED <<inputs, planned, host, actions, ghost, last>>

\* The Plan verb: the plan is built or loaded and described; nothing is
\* mutated.
PlanVerb ==
    /\ driver.pc = "idle" /\ driver.engine = "Plan"
    /\ driver' = [driver EXCEPT !.pc = "exit",
                                !.exit = IF planned.ok THEN "Success" ELSE "Failure"]
    /\ UNCHANGED <<inputs, planned, host, actions, ghost, last, bus>>

\* A SIGINT or SIGTERM reaches the running process and the listener
\* republishes it.
Signal ==
    \E sig \in Signals :
        /\ driver.pc # "exit" /\ bus.tail < MaxSignals
        /\ bus' = Listen(bus, sig)
        /\ UNCHANGED <<inputs, planned, host, actions, ghost, last, driver>>

\* The driver observes a stop notification on its receiver, between two
\* actions or while a call is in flight; the call goes on.
Observe ==
    /\ driver.pc \in {"idle", "inflight"} /\ driver.engine \in {"Install", "Uninstall"}
    /\ try_recv(bus, 1).res # "Empty"
    /\ bus' = try_recv(bus, 1).bus
    /\ driver' = [driver EXCEPT
          !.stopObserved = TRUE,
          !.observedAt = IF driver.stopObserved THEN @ ELSE Len(driver.calls),
          !.observedInflight = IF driver.stopObserved THEN @ ELSE driver.pc = "inflight"]
    /\ UNCHANGED <<inputs, planned, host, actions, ghost, last>>

\* Between two actions, the driver that observed a stop returns instead of
\* starting the next action.
Decline ==
    /\ driver.pc = "idle" /\ driver.engine \in {"Install", "Uninstall"}
    /\ driver.stopObserved
    /\ driver' = [driver EXCEPT
          !.pc = "exit",
          !.exit = IF driver.engine = "Uninstall" /\ CompletedSet = {}
                   THEN "Success" ELSE "Failure"]
    /\ UNCHANGED <<inputs, planned, host, actions, ghost, last, bus>>

\* The driver begins the call for the next action: execute for Install,
\* revert for Uninstall.
Begin ==
    /\ driver.pc = "idle" /\ driver.engine \in {"Install", "Uninstall"}
    /\ DriverMayStart(driver, bus)
    /\ driver' = [driver EXCEPT
          !.pc = "inflight",
          !.calls = Append(@, [op |-> IF driver.engine = "Install" THEN "execute" ELSE "revert",
                               idx |-> driver.idx, res |-> "running"])]
    /\ UNCHANGED <<inputs, planned, host, actions, ghost, last, bus>>

\* The call in flight returns.  Install stops at the first failure and
\* succeeds when every action executed.
EndExecute ==
    /\ driver.pc = "inflight" /\ driver.engine = "Install"
    /\ \E fault \in ExecFaults(actions[driver.idx].action_name) :
        /\ WrapperExecute(driver.idx, fault)
        /\ driver' = [driver EXCEPT
              !.calls[Len(driver.calls)].res = IF last'.ok THEN "ok" ELSE "fail",
              !.mutated = IF last'.touched THEN @ \cup {driver.idx} ELSE @,
              !.failedAt = IF last'.ok THEN 0 ELSE driver.idx,
              !.idx = IF last'.ok THEN @ + 1 ELSE @,
              !.pc = IF last'.ok /\ driver.idx < PlanLen THEN "idle" ELSE "exit",
              !.exit = IF ~last'.ok THEN "Failure"
                       ELSE IF driver.idx = PlanLen THEN "Success" ELSE @]
        /\ UNCHANGED <<inputs, planned, bus>>

\* The revert in flight returns.  After a failed revert Uninstall stops, or
\* goes on with the actions before it (spec.md leaves it open); it succeeds
\* when no Completed action is left.
EndRevert ==
    /\ driver.pc = "inflight" /\ driver.engine = "Uninstall"
    /\ \E fault \in RevertFaults(actions[driver.idx].action_name) : \E goOn \in BOOLEAN :
        /\ WrapperRevert(driver.idx, fault)
        /\ LET more == driver.idx > 1 /\ (last'.ok \/ goOn)
           IN driver' = [driver EXCEPT
                 !.calls[Len(driver.calls)].res = IF last'.ok THEN "ok" ELSE "fail",
                 !.reverted = IF last'.invoked THEN @ \cup {driver.idx} ELSE @,
                 !.anyFailed = @ \/ ~last'.ok,
                 !.failedAt = IF last'.ok \/ driver.failedAt # 0 THEN @ ELSE driver.idx,
                 !.idx = @ - 1,
                 !.pc = IF more THEN "idle" ELSE "exit",
                 !.exit = IF more THEN @
                          ELSE IF \A i \in DOMAIN actions : actions'[i].state = Incomplete
                               THEN "Success" ELSE "Failure"]
        /\ UNCHANGED <<inputs, planned, bus>>

NextDriver ==
    Start \/ PlanVerb \/ Signal \/ Observe \/ Decline \/ Begin \/ EndExecute \/ EndRevert

SpecDriver == InitDriver /\ [][NextDriver]_vars

(***************************************************************************)
(* The channel on its own: signals, the listener, receivers                *)
(***************************************************************************)
\* The number of signals the listener handles in a run of the channel's
\* specification (more than the channel keeps), the number of try_recv calls
\* of one receiver, and the number of values sent before which a later
\* receiver subscribes.
MaxSends == 130
MaxRecvs == 2
SubscribeBy == 2

InitBus ==
    /\ inputs \in {i \in WrapperInputs : i.distribution = "InMemory"}
    /\ planned = NotPlanned
    /\ host = HostWith([exists |-> FALSE, entries |-> {}])
    /\ actions = <<>>
    /\ ghost = <<>>
    /\ last = NoCall
    /\ bus = signal_channel
    /\ driver = NoDriver

\* A SIGINT or SIGTERM reaches the process and the listener republishes it.
BusSignal ==
    \E sig \in Signals :
        /\ bus.tail < MaxSends
        /\ bus' = Listen(bus, sig)
        /\ UNCHANGED <<inputs, planned, host, actions, ghost, last, driver>>

\* sender.subscribe(): a new receiver, which starts at the current tail.
BusSubscribe ==
    \E r \in Receivers \ (bus.subs \cup bus.dropped) :
        /\ bus.tail <= SubscribeBy
        /\ bus' = [bus EXCEPT !.subs = @ \cup {r}, !.next[r] = bus.tail]
        /\ UNCHANGED <<inputs, planned, host, actions, ghost, last, driver>>

\* A receiver reads.
BusRecv ==
    \E r \in bus.subs :
        /\ bus.reads[r] < MaxRecvs
        /\ bus' = try_recv(bus, r).bus
        /\ UNCHANGED <<inputs, planned, host, actions, ghost, last, driver>>

\* A receiver is dropped.
BusDrop ==
    \E r \in bus.subs :
        /\ bus' = [bus EXCEPT !.subs = @ \ {r}, !.dropped = @ \cup {r}, !.owed = @ \ {r}]
        /\ UNCHANGED <<inputs, planned, host, actions, ghost, last, driver>>

NextBus == BusSignal \/ BusSubscribe \/ BusRecv \/ BusDrop

SpecBus == InitBus /\ [][NextBus]_vars

(***************************************************************************)
(* FetchAndUnpackNix on its own: plan, then execute and revert calls       *)
(***************************************************************************)
\* fn tracing_synopsis(&self): which of the two texts it renders.
tracing_synopsis(self) ==
    IF tarball_location_or(self.distribution, self.url_or_path).kind = "InMemory"
    THEN "Extract the bundled Nix (originally from ..) to .."
    ELSE "Fetch .. to .."

\* fn revert_description(&self): vec![]
revert_description(self) == <<>>

\* The number of execute and revert calls made on the action.
MaxExecCalls == 2

\* The inputs given to plan: any distribution and locator (a distribution
\* with no embedded payload comes with a locator), no proxy or a proxy, no
\* certificate file or one that parses when plan reads it.
ExecInputs ==
    {i \in [distribution : Distributions, url_or_path : UrlOrPaths,
            proxy : {p \in Proxies : p.scheme \in {"", "socks5", "socks4"}},
            ssl_cert_file : CertFiles, certParses : {TRUE}] :
        i.distribution = "InMemory" \/ i.url_or_path.kind # None}

\* No execute or revert call was made yet.  before is the host before the
\* last call, fault what that call met, prev the call before it.
NoExec(h) ==
    [n |-> 0, op |-> None, fault |-> "none", ok |-> FALSE, err |-> NoError, before |-> h,
     prev |-> [op |-> None, ok |-> FALSE, mutated |-> FALSE]]

ExecRecord(op, fault, r) ==
    [n |-> last.n + 1, op |-> op, fault |-> fault, ok |-> r.ok, err |-> r.err, before |-> host,
     prev |-> [op |-> last.op, ok |-> last.ok,
               mutated |-> host.mutations > last.before.mutations]]

InitExec ==
    /\ inputs \in ExecInputs
    /\ planned = NotPlanned
    /\ host \in {HostWith(d) : d \in DestStates}
    /\ actions = <<>>
    /\ ghost = <<>>
    /\ last = NoExec(host)
    /\ bus = signal_channel
    /\ driver = NoDriver

\* FetchAndUnpackNix::plan, once.
ExecPlan ==
    /\ DoPlan
    /\ last.n = 0

\* One call of execute on the action plan returned, meeting fault.
ExecExecute ==
    \E fault \in Faults :
        /\ planned.called /\ planned.ok /\ last.n < MaxExecCalls
        /\ LET r == FetchAndUnpackNix_execute(inputs, host, fault)
           IN /\ host' = r.host
              /\ last' = ExecRecord("execute", fault, r)
        /\ UNCHANGED <<inputs, planned, actions, ghost, bus, driver>>

\* One call of revert on the action plan returned.
ExecRevert ==
    \E fault \in Faults :
        /\ planned.called /\ planned.ok /\ last.n < MaxExecCalls
        /\ LET r == FetchAndUnpackNix_revert(inputs, host, fault)
           IN /\ host' = r.host
              /\ last' = ExecRecord("revert", fault, r)
        /\ UNCHANGED <<inputs, planned, actions, ghost, bus, driver>>

NextExec == ExecPlan \/ ExecExecute \/ ExecRevert

SpecExec == InitExec /\ [][NextExec]_vars

(***************************************************************************)
(* Claims                                                                  *)
(***************************************************************************)
\* C1: the flag is Completed if and only if the wrapped execute has run to
\* success and no wrapped revert has succeeded since; a failed wrapped execute
\* leaves the flag Incomplete and its error is what the caller gets.
C1_FlagInvariant ==
    /\ \A i \in DOMAIN actions : (actions[i].state = Completed) <=> ghost[i].done
    /\ (last.op = "execute" /\ last.invoked /\ ~last.innerOk)
          => /\ actions[last.idx].state = Incomplete
             /\ ~last.ok
             /\ last.err = last.innerErr
             /\ last.err # NoError

\* C1 witness: an execute succeeded, a revert of it succeeded, and a second
\* execute of the same action failed.
C1_Witness ==
    /\ last.op = "execute" /\ last.invoked /\ ~last.innerOk
    /\ last.prev = [op |-> "revert", idx |-> last.idx, ok |-> TRUE]
    /\ ghost[last.idx].innerRevert = 1

\* C2 as stated: two execute() calls on the StatefulAction of the
\* fetch-and-unpack action (and no revert) invoke FetchAndUnpackNix::execute
\* at most once.
C2_AtMostOnce ==
    \A i \in DOMAIN actions :
        (/\ actions[i].action_name = action_tag
         /\ ghost[i].execCalls = 2 /\ ghost[i].revertCalls = 0) => ghost[i].innerExec <= 1

\* C2 amended: execute() on a Completed flag returns success without invoking
\* the wrapped execute or changing the host, so execute() calls with no revert
\* between them invoke the wrapped execute once more than it failed, at most.
C2_AtMostOnceAfterSuccess ==
    /\ (last.op = "execute" /\ last.flagBefore = Completed)
          => (~last.invoked /\ ~last.touched /\ last.ok /\ last.err = NoError)
    /\ \A i \in DOMAIN actions :
          ghost[i].revertCalls = 0 => ghost[i].innerExec <= ghost[i].innerExecFail + 1

\* C2 witness: execute() was called a second time on the fetch-and-unpack
\* action, whose first execute() had succeeded.
C2_Witness ==
    /\ last.op = "execute" /\ last.flagBefore = Completed
    /\ last.prev = [op |-> "execute", idx |-> last.idx, ok |-> TRUE]
    /\ actions[last.idx].action_name = action_tag
    /\ ghost[last.idx].execCalls = 2 /\ ghost[last.idx].innerExec = 1

\* C3: revert() on an Incomplete flag returns success without invoking the
\* wrapped revert and leaves the flag Incomplete; on a Completed flag it
\* invokes the wrapped revert and clears the flag only if that succeeded, so
\* a revert() that follows a failed one invokes the wrapped revert again.
C3_Revert ==
    last.op = "revert" =>
        /\ last.flagBefore = Incomplete
              => (~last.invoked /\ last.ok /\ actions[last.idx].state = Incomplete)
        /\ last.flagBefore = Completed
              => /\ last.invoked
                 /\ last.innerOk => (last.ok /\ actions[last.idx].state = Incomplete)
                 /\ ~last.innerOk => (~last.ok /\ actions[last.idx].state = Completed)
        /\ last.prev = [op |-> "revert", idx |-> last.idx, ok |-> FALSE] => last.invoked

\* C3 witness: a revert() failed and the next revert() of the same action
\* invoked the wrapped revert a second time.
C3_Witness ==
    /\ last.op = "revert" /\ last.invoked
    /\ last.prev = [op |-> "revert", idx |-> last.idx, ok |-> FALSE]
    /\ ghost[last.idx].innerRevert = 2

\* C4: Install calls execute on the actions in plan order, each after the
\* ones before it returned success; at the first failure, of action k, it
\* returns without calling any later action, and a plan that started with
\* every flag Incomplete then has Completed flags on exactly the actions
\* before k.
C4_InstallOrder ==
    driver.subcommand = "Install" =>
        /\ \A p \in 1..Len(driver.calls) :
              /\ driver.calls[p].op = "execute" /\ driver.calls[p].idx = p
              /\ p < Len(driver.calls) => driver.calls[p].res = "ok"
        /\ driver.failedAt # 0 =>
              /\ driver.pc = "exit"
              /\ Len(driver.calls) = driver.failedAt
              /\ driver.calls[driver.failedAt].res = "fail"
              /\ driver.fresh => CompletedSet = 1..(driver.failedAt - 1)
              /\ (driver.fresh /\ driver.runs = 1)
                    => \A j \in (driver.failedAt + 1)..PlanLen : ghost[j].execCalls = 0

\* C4 witness: an Install of a plan with every flag Incomplete failed at its
\* second action.
C4_Witness ==
    /\ driver.subcommand = "Install" /\ driver.fresh /\ driver.pc = "exit"
    /\ driver.failedAt = 2 /\ CompletedSet = {1}

\* C5: Uninstall calls revert on the actions in reverse plan order, each
\* after the ones behind it were handled; the wrapped revert is invoked for
\* the actions whose flag was Completed and for no action whose flag was
\* Incomplete.
C5_UninstallOrder ==
    driver.subcommand = "Uninstall" =>
        /\ \A p \in 1..Len(driver.calls) :
              /\ driver.calls[p].op = "revert" /\ driver.calls[p].idx = PlanLen - p + 1
              /\ p < Len(driver.calls) => driver.calls[p].res # "running"
              /\ driver.calls[p].res # "running"
                    => (driver.calls[p].idx \in driver.reverted
                            <=> driver.calls[p].idx \in driver.started)
        /\ driver.reverted \subseteq driver.started

\* C5 witness: an Uninstall of a plan whose first two actions were Completed
\* and whose third was not handled all three and reverted the first two.
C5_Witness ==
    /\ driver.subcommand = "Uninstall" /\ driver.pc = "exit"
    /\ driver.started = {1, 2} /\ Len(driver.calls) = PlanLen
    /\ driver.reverted = {1, 2}

\* C6 as stated: after an Install that stopped at a failing action, an
\* Uninstall that ran undisturbed (no stop, no failing revert) invoked the
\* wrapped revert of exactly the actions whose execute changed the host.
C6_RevertsWhatChanged ==
    (/\ driver.subcommand = "Uninstall" /\ driver.pc = "exit"
     /\ ~driver.stopObserved /\ ~driver.anyFailed
     /\ driver.before.subcommand = "Install" /\ driver.before.failedAt # 0
     /\ driver.before.fresh /\ ~driver.before.cancelled)
        => driver.reverted = driver.before.mutated

\* C7: once the driver has observed a stop it begins no further call; a call
\* in flight at that moment returns with its own result, the flag set as that
\* result requires, and every flag is what the wrapped calls made it.
C7_Cooperative ==
    /\ driver.stopObserved =>
          /\ Len(driver.calls) = driver.observedAt
          /\ driver.pc = "exit" => \A p \in 1..Len(driver.calls) : driver.calls[p].res # "running"
          /\ (driver.observedInflight /\ driver.pc = "exit") =>
                LET c == driver.calls[driver.observedAt]
                IN /\ c.op = "execute" => (actions[c.idx].state = Completed <=> c.res = "ok")
                   /\ c.op = "revert" => (actions[c.idx].state = Incomplete <=> c.res = "ok")
    /\ \A i \in DOMAIN actions : (actions[i].state = Completed) <=> ghost[i].done

\* C7 witness: during an Install a stop was observed while the execute of the
\* first action was in flight; that execute succeeded and the process
\* returned with the later actions not started.
C7_Witness ==
    /\ driver.subcommand = "Install" /\ driver.stopObserved /\ driver.observedInflight
    /\ driver.pc = "exit" /\ driver.observedAt = 1
    /\ driver.calls[1].res = "ok" /\ CompletedSet = {1}

\* A receiver can observe a stop notification: its next try_recv returns a
\* value, or returns Lagged and the one after it returns a value.
CanObserve(b, r) ==
    LET t == try_recv(b, r)
    IN t.res = "Ok" \/ (t.res = "Lagged" /\ try_recv(t.bus, r).res = "Ok")

\* C8: every receiver that was subscribed when the listener republished a
\* signal, and has read no notification since, can observe one, however many
\* signals were republished before it reads.
C8_StopObservable == \A r \in bus.owed : r \in bus.subs /\ CanObserve(bus, r)

\* C8 witness: so many signals were republished before receiver 1 read that
\* the channel overwrote notifications it had not read.
C8_Witness ==
    /\ 1 \in bus.owed
    /\ bus.tail - bus.next[1] > ChannelCapacity
    /\ try_recv(bus, 1).res = "Lagged"

UrlSchemeOk(u) == u.kind # "Url" \/ u.scheme \in {"https", "http", "file"}
ProxySchemeOk(p) == p.kind = None \/ p.scheme \in {"https", "http", "socks5"}
CertOk(i) == i.ssl_cert_file = None \/ i.certParses

\* C9: plan with a URL locator succeeds for every scheme in {https, http,
\* file} when the proxy and the certificate file are valid; for any other
\* scheme it fails with UnknownUrlScheme, having made no access to the host
\* and built no action.
C9_UrlScheme ==
    (planned.called /\ inputs.url_or_path.kind = "Url") =>
        /\ (inputs.url_or_path.scheme \in {"https", "http", "file"}
              /\ ProxySchemeOk(inputs.proxy) /\ CertOk(inputs))
              => (planned.ok /\ planned.action.action_name = action_tag)
        /\ inputs.url_or_path.scheme \notin {"https", "http", "file"}
              => /\ ~planned.ok
                 /\ planned.err = [tag |-> action_tag, kind |-> "UnknownUrlScheme", custom |-> ""]
                 /\ planned.action = NoAction
                 /\ Accesses(host) = 0

\* C9 witness: plan was called on an ftp locator, with a bad proxy and an
\* unparseable certificate file configured as well, and failed.
C9_Witness ==
    /\ planned.called /\ ~planned.ok
    /\ inputs.url_or_path = [kind |-> "Url", scheme |-> "ftp"]
    /\ inputs.proxy = [kind |-> "Url", scheme |-> "ftp"]
    /\ inputs.ssl_cert_file # None /\ ~inputs.certParses

\* C10: plan with a proxy succeeds for every proxy scheme in {https, http,
\* socks5} when the locator and the certificate file are valid; with a valid
\* locator and any other proxy scheme it fails with UnknownProxyScheme.
C10_ProxyScheme ==
    (planned.called /\ inputs.proxy.kind # None /\ UrlSchemeOk(inputs.url_or_path)) =>
        /\ (inputs.proxy.scheme \in {"https", "http", "socks5"} /\ CertOk(inputs))
              => planned.ok
        /\ inputs.proxy.scheme \notin {"https", "http", "socks5"}
              => /\ ~planned.ok
                 /\ planned.err = [tag |-> action_tag, kind |-> "Custom",
                                   custom |-> "UnknownProxyScheme"]

\* C10 witness: plan was called with a socks5 proxy and succeeded.
C10_Witness ==
    /\ planned.called /\ planned.ok
    /\ inputs.proxy = [kind |-> "Url", scheme |-> "socks5"]
    /\ inputs.url_or_path.kind = "Url"

\* What the last execute call added to the host's accesses.
GetsOf == host.gets - last.before.gets
ReadsOf == host.reads - last.before.reads
CertReadsOf == host.certReads - last.before.certReads
MutationsOf == host.mutations - last.before.mutations

\* C11: validation errors are detected only at plan time: an execute of an
\* action that plan accepted never returns an unknown-URL-scheme error or a
\* certificate-parse error.
C11_ValidationOnlyAtPlan ==
    (planned.ok /\ last.op = "execute" /\ ~last.ok)
        => last.err.kind \notin {"UnknownUrlScheme", "Certificate"}

\* C12: after a successful execute the destination holds exactly the
\* archive's entries, whatever it held before, and is what an execute against
\* an absent destination leaves.
C12_IdempotentOverwrite ==
    (last.op = "execute" /\ last.ok) =>
        /\ host.dest = [exists |-> TRUE, entries |-> ArchiveEntries]
        /\ host.dest = FetchAndUnpackNix_execute(
                           inputs, HostWith([exists |-> FALSE, entries |-> {}]), "none").host.dest

\* C12 witness: an execute succeeded on a destination that held leftover.txt
\* and one of the archive's entries, and leftover.txt is gone.
C12_Witness ==
    /\ last.op = "execute" /\ last.ok
    /\ last.before.dest = [exists |-> TRUE, entries |-> {"leftover.txt", "nix/bin"}]
    /\ "leftover.txt" \notin host.dest.entries

\* C13: revert returns success and leaves the host as it was, whether execute
\* was never called, succeeded or failed partway; its description is empty.
C13_RevertNoop ==
    /\ last.op = "revert" => (last.ok /\ last.err = NoError /\ host = last.before)
    /\ planned.ok => revert_description(inputs) = <<>>

\* C13 witness: revert was called after an execute that failed having changed
\* the destination.
C13_Witness ==
    /\ last.op = "revert" /\ last.ok
    /\ last.prev = [op |-> "execute", ok |-> FALSE, mutated |-> TRUE]
    /\ host.dest.entries # ArchiveEntries

\* C15: with an embedded payload execute makes no GET and reads no file,
\* whatever locator, proxy and certificate file are configured; otherwise it
\* makes one GET for an https or http URL and reads no file, or reads the file
\* of a file URL or a bare path once and makes no GET; one source at most is
\* consulted, and the synopsis names the source.
C15_BytePriority ==
    last.op = "execute" =>
        /\ GetsOf + ReadsOf <= 1
        /\ inputs.distribution = "InMemory"
              => /\ GetsOf = 0 /\ ReadsOf = 0 /\ CertReadsOf = 0
                 /\ tracing_synopsis(inputs) = "Extract the bundled Nix (originally from ..) to .."
        /\ inputs.distribution # "InMemory"
              => /\ tracing_synopsis(inputs) = "Fetch .. to .."
                 /\ (inputs.url_or_path.kind = "Url" /\ inputs.url_or_path.scheme \in {"https", "http"})
                       => (ReadsOf = 0 /\ (last.ok => GetsOf = 1))
                 /\ (inputs.url_or_path.kind = "Path" \/ inputs.url_or_path.scheme = "file")
                       => (GetsOf = 0 /\ ReadsOf = 1)

\* C15 witness: an execute succeeded with an embedded payload while an https
\* locator, a proxy and a certificate file were configured.
C15_Witness ==
    /\ last.op = "execute" /\ last.ok
    /\ inputs.distribution = "InMemory"
    /\ inputs.url_or_path = [kind |-> "Url", scheme |-> "https"]
    /\ inputs.proxy.kind # None /\ inputs.ssl_cert_file # None
    /\ Accesses(host) = Accesses(last.before) + MutationsOf

\* C16: a failed execute returns one ActionError with the action's tag and the
\* kind of the step that failed: Reqwest for the fetch, Read with the path for
\* a file URL or a bare path, Remove with the destination for the removal,
\* Unarchive for the extraction, which is not the kind of the fetch; the step
\* that failed was made once.
C16_ErrorKinds ==
    (last.op = "execute" /\ ~last.ok) =>
        /\ last.err.tag = action_tag /\ last.err.kind # ""
        /\ last.fault \in {"proxy", "client", "request", "transport", "body"}
              => last.err = [tag |-> action_tag, kind |-> "Reqwest", custom |-> ""]
        /\ last.fault = "read"
              => /\ last.err.kind = "Read"
                 /\ last.err.custom = IF inputs.url_or_path.kind = "Url" THEN "url.path" ELSE "path"
        /\ last.fault \in {"remove", "remove_partial"}
              => last.err = [tag |-> action_tag, kind |-> "Remove", custom |-> "dest"]
        /\ last.fault \in {"mkdir", "unarchive", "unarchive_partial"}
              => /\ last.err = [tag |-> action_tag, kind |-> "Custom", custom |-> "Unarchive"]
                 /\ last.err.kind # "Reqwest"
        /\ last.err.kind = "Reqwest"
              => last.fault \in {"proxy", "client", "request", "transport", "body"}
        /\ GetsOf <= 1 /\ ReadsOf <= 1 /\ CertReadsOf <= 1 /\ MutationsOf <= 3

\* C16 witness: an execute fetched the bytes with a GET and failed while
\* extracting them.
C16_Witness ==
    /\ last.op = "execute" /\ ~last.ok
    /\ last.fault = "unarchive_partial" /\ GetsOf = 1
    /\ last.err.custom = "Unarchive"

\* C17: an execute that fails before it has the bytes leaves the destination
\* as it was; one that fails removing the destination extracts nothing.
C17_MutateAfterBytes ==
    (last.op = "execute" /\ ~last.ok) =>
        /\ last.fault \in {"proxy", "cert", "client", "request", "transport", "body", "read"}
              => (host.dest = last.before.dest /\ MutationsOf = 0)
        /\ last.fault \in {"remove", "remove_partial"}
              => /\ host.dest.exists
                 /\ host.dest.entries \subseteq last.before.dest.entries

\* C17 witness: a GET failed in transport while the destination held
\* leftover.txt.
C17_Witness ==
    /\ last.op = "execute" /\ ~last.ok /\ last.fault = "transport"
    /\ GetsOf = 1
    /\ host.dest = [exists |-> TRUE, entries |-> {"leftover.txt"}]

\* C14: Install exits with success if and only if its execute call on every
\* action of the plan returned success; an Install that a failure or an
\* observed stop ended early exits with failure, the flags being what the
\* wrapped calls made them (and, on a plan that started with every flag
\* Incomplete, Completed on exactly the actions executed).  Uninstall exits
\* with success if and only if the revert of every action whose flag was
\* Completed returned success.
C14_ExitCodes ==
    (driver.runs > 0 /\ driver.pc = "exit") =>
        LET okCalls(op) == {p \in 1..Len(driver.calls) :
                                driver.calls[p].op = op /\ driver.calls[p].res = "ok"}
        IN /\ driver.exit \in {"Success", "Failure"}
           /\ driver.subcommand = "Install" =>
                 /\ driver.exit = "Success" <=> okCalls("execute") = 1..PlanLen
                 /\ driver.exit = "Success" => CompletedSet = 1..PlanLen
                 /\ driver.exit = "Failure" =>
                       /\ \A i \in DOMAIN actions : (actions[i].state = Completed) <=> ghost[i].done
                       /\ driver.fresh => CompletedSet = okCalls("execute")
           /\ driver.subcommand = "Uninstall" =>
                 (driver.exit = "Success" <=>
                     \A i \in driver.started :
                         \E p \in okCalls("revert") : driver.calls[p].idx = i)

\* C14 witness: an Install observed a stop between its second and its third
\* action and exited with failure, the first two actions Completed.
C14_Witness ==
    /\ driver.subcommand = "Install" /\ driver.pc = "exit" /\ driver.fresh
    /\ driver.stopObserved /\ ~driver.observedInflight
    /\ driver.exit = "Failure" /\ driver.failedAt = 0
    /\ Len(driver.calls) = 2 /\ CompletedSet = {1, 2}

\* C18: plan checks the locator's scheme, then the proxy's, then the
\* certificate file, and returns the first failure: a bad locator scheme gives
\* UnknownUrlScheme whatever the proxy is, the certificate file is read only
\* when both schemes passed, and a failed plan built no action and made no
\* request, no file read and no change on the host.
C18_PlanOrder ==
    planned.called =>
        /\ ~UrlSchemeOk(inputs.url_or_path)
              => planned.err = [tag |-> action_tag, kind |-> "UnknownUrlScheme", custom |-> ""]
        /\ (UrlSchemeOk(inputs.url_or_path) /\ ~ProxySchemeOk(inputs.proxy))
              => planned.err = [tag |-> action_tag, kind |-> "Custom",
                                custom |-> "UnknownProxyScheme"]
        /\ host.certReads = (IF /\ UrlSchemeOk(inputs.url_or_path)
                                /\ ProxySchemeOk(inputs.proxy)
                                /\ inputs.ssl_cert_file # None THEN 1 ELSE 0)
        /\ planned.ok <=> (UrlSchemeOk(inputs.url_or_path) /\ ProxySchemeOk(inputs.proxy)
                               /\ CertOk(inputs))
        /\ ~planned.ok
              => /\ planned.err # NoError /\ planned.action = NoAction
                 /\ host.gets = 0 /\ host.reads = 0 /\ host.mutations = 0

\* C18 witness: plan failed on a locator with the scheme socks5 and a proxy
\* with the scheme file, each valid only in the other's place, without
\* reading the certificate file configured.
C18_Witness ==
    /\ planned.called /\ ~planned.ok
    /\ inputs.url_or_path = [kind |-> "Url", scheme |-> "socks5"]
    /\ inputs.proxy = [kind |-> "Url", scheme |-> "file"]
    /\ inputs.ssl_cert_file # None /\ host.certReads = 0
    /\ planned.err.kind = "UnknownUrlScheme"

====
